---- MODULE Spec2Model ----
(***************************************************************************)
(* SectoralDiffReport (src/sectoral_diff_report.py): the pipeline that     *)
(* compares a simulation's emissions with the EDGAR inventory.  The state  *)
(* is the directory misc_dir_path (the files read and written), the        *)
(* caller's simulation table, the local variables of generate_diff_reports *)
(* and the position of that method in its body.                            *)
(*                                                                         *)
(* A DataFrame is [cols |-> <<column names, in order>>,                    *)
(*                 rows |-> <<one function column -> cell per row>>].      *)
(* A text cell is a string, an empty CSV cell being "" (pandas reads it as *)
(* NaN); Vars is kept as its sequence of characters so that split(':') is  *)
(* computed.  A float cell is [k, n, d]: k = "fin" for the rational n/d in *)
(* lowest terms, "nan", "inf" or "-inf".  Integer columns are Int.         *)
(***************************************************************************)
EXTENDS Integers, Sequences, FiniteSets, TLC

VARIABLES
    fs,                             \* path -> file of misc_dir_path
    simulation_df,                  \* the caller's simulation table
    sim_input,                      \* the table the caller built (history)
    pc,                             \* index in Program of the next statement
    status,                         \* "running", "returned" or "aborted"
    error,                          \* the exception that aborted the run
    mapping_df,
    simulation_df_filtered,
    edgar_df,
    detailed_report_draft_df,
    missing_variables,
    stdout,
    detailed_diff_report_complete,
    subsector_diff_report,
    written,                        \* paths written by the current call (history)
    fs_at_call,                     \* the directory when the call began (history)
    run,                            \* 1: first call, 2: the call repeated
    first                           \* outcome of the first call (history)

vars == <<fs, simulation_df, sim_input, pc, status, error, mapping_df,
          simulation_df_filtered, edgar_df, detailed_report_draft_df,
          missing_variables, stdout, detailed_diff_report_complete,
          subsector_diff_report, written, fs_at_call, run, first>>

(***************************************************************************)
(* Construction parameters (__init__).                                     *)
(***************************************************************************)
misc_dir_path == "misc"
iso_alpha_3 == "HRV"
init_year == 2010
ref_year == 2015
ref_primary_id == 0
report_type == "all-sectors"

os_path_join(a, b) == a \o "/" \o b

mapping_table_path == os_path_join(misc_dir_path, "mapping.csv")
edga_file_path ==
    os_path_join(misc_dir_path, "CSC-GHG_emissions-April2024_to_calibrate.csv")

(***************************************************************************)
(* Sequences, numbers, strings.                                            *)
(***************************************************************************)
Range(s) == {s[i] : i \in 1..Len(s)}

RECURSIVE SumInt(_)
SumInt(s) == IF s = <<>> THEN 0 ELSE Head(s) + SumInt(Tail(s))

RECURSIVE Flatten(_)
Flatten(ss) == IF ss = <<>> THEN <<>> ELSE Head(ss) \o Flatten(Tail(ss))

RECURSIVE Permutations_(_)
Permutations_(S) ==
    IF S = {} THEN {<<>>}
    ELSE UNION {{<<x>> \o p : p \in Permutations_(S \ {x})} : x \in S}

Abs(n) == IF n < 0 THEN -n ELSE n

RECURSIVE GCD(_, _)
GCD(a, b) == IF b = 0 THEN a ELSE GCD(b, a % b)

Digits == <<"0", "1", "2", "3", "4", "5", "6", "7", "8", "9">>

\* str(n) for n >= 0
RECURSIVE str(_)
str(n) == IF n < 10 THEN Digits[n + 1]
          ELSE str(n \div 10) \o Digits[(n % 10) + 1]

\* int(s) for the decimal labels of the years around ref_year
YearLabels == (ref_year - 1)..(ref_year + 1)
int(s) == CHOOSE n \in YearLabels : str(n) = s

\* s.split(sep), s a sequence of characters, the pieces as strings
RECURSIVE split_(_, _, _)
split_(s, sep, cur) ==
    IF s = <<>> THEN <<cur>>
    ELSE IF Head(s) = sep THEN <<cur>> \o split_(Tail(s), sep, "")
    ELSE split_(Tail(s), sep, cur \o Head(s))

split(s, sep) == split_(s, sep, "")

(***************************************************************************)
(* Float cells.                                                            *)
(***************************************************************************)
Num(n) == [k |-> "fin", n |-> n, d |-> 1]
NaN == [k |-> "nan", n |-> 0, d |-> 1]
PosInf == [k |-> "inf", n |-> 1, d |-> 0]
NegInf == [k |-> "-inf", n |-> -1, d |-> 0]

\* n / d for d # 0
Quot(n, d) ==
    LET g == GCD(Abs(n), Abs(d))
        s == IF d < 0 THEN -1 ELSE 1
    IN  [k |-> "fin", n |-> (s * n) \div g, d |-> (s * d) \div g]

\* a - b and a / b of two cells that are integers or NaN (float arithmetic:
\* NaN propagates, x / 0 is +-inf, 0 / 0 is NaN, nothing is raised)
FSub(a, b) == IF a.k = "nan" \/ b.k = "nan" THEN NaN ELSE Num(a.n - b.n)

\* mutant: an undefined quotient is stored as 0
FDiv_zero_when_undefined(a, b) ==
    IF a.k = "nan" \/ b.k = "nan" \/ b.n = 0 THEN Num(0) ELSE Quot(a.n, b.n)

FDiv(a, b) ==
    IF a.k = "nan" \/ b.k = "nan" THEN NaN
    ELSE IF b.n = 0
         THEN (IF a.n = 0 THEN NaN ELSE IF a.n > 0 THEN PosInf ELSE NegInf)
         ELSE Quot(a.n, b.n)

\* Series.sum(): NaN cells are skipped, the sum of nothing is 0
RECURSIVE NanSum(_)
NanSum(s) ==
    IF s = <<>> THEN 0
    ELSE (IF Head(s).k = "nan" THEN 0 ELSE Head(s).n) + NanSum(Tail(s))

\* pandas.isna of a text cell
isna(x) == x = ""

(***************************************************************************)
(* DataFrames and files.                                                   *)
(***************************************************************************)
DF(cols, rows) == [cols |-> cols, rows |-> rows]
NoDF == DF(<<>>, <<>>)
HasCol(df, c) == c \in Range(df.cols)
Column(df, c) == [i \in 1..Len(df.rows) |-> df.rows[i][c]]

\* row with column c set to v (added when new)
WithCell(row, c, v) ==
    [x \in DOMAIN row \cup {c} |-> IF x = c THEN v ELSE row[x]]
AddCol(cols, c) == IF c \in Range(cols) THEN cols ELSE Append(cols, c)

NoFile == [exists |-> FALSE, cols |-> <<>>, rows |-> <<>>]
File(df) == [exists |-> TRUE, cols |-> df.cols, rows |-> df.rows]

\* pd.read_csv / DataFrame.to_csv(index=False)
read_csv(f) == DF(f.cols, f.rows)
to_csv(df) == File(df)

(***************************************************************************)
(* The order of strings (groupby sorts its keys).                          *)
(***************************************************************************)
StrOrder ==
    <<"", "Energy", "Energy:CH4", "Energy:CO2", "Energy:N2O", "IPPU",
      "IPPU:CH4", "IPPU:CO2">>
Rank(s) == CHOOSE i \in 1..Len(StrOrder) : StrOrder[i] = s

RECURSIVE KeyLess(_, _)
KeyLess(a, b) ==
    IF a = <<>> \/ b = <<>> THEN a = <<>> /\ b # <<>>
    ELSE \/ Rank(Head(a)) < Rank(Head(b))
         \/ Head(a) = Head(b) /\ KeyLess(Tail(a), Tail(b))

RECURSIVE SortKeys(_)
SortKeys(S) ==
    IF S = {} THEN <<>>
    ELSE LET m == CHOOSE x \in S : \A y \in S \ {x} : KeyLess(x, y)
         IN  <<m>> \o SortKeys(S \ {m})

KeyOf(row, by) == [i \in 1..Len(by) |-> row[by[i]]]

\* the groups of df.groupby(by): the sorted distinct keys of the rows none
\* of whose key cells is NaN (dropna=True)
GroupKeys(df, by) ==
    SortKeys({KeyOf(df.rows[i], by) :
                i \in {j \in 1..Len(df.rows) :
                         \A c \in Range(by) : ~isna(df.rows[j][c])}})

GroupRows(df, by, key) ==
    SelectSeq(df.rows, LAMBDA r : KeyOf(r, by) = key)

(***************************************************************************)
(* The methods.  Each returns [raised |-> the exception ("" when none),    *)
(* ret |-> the value returned, ...].                                       *)
(***************************************************************************)
Ok(df) == [raised |-> "", ret |-> df]
Raise(e) == [raised |-> e, ret |-> NoDF]

load_mapping_table(files) ==
    IF ~files[mapping_table_path].exists THEN Raise("FileNotFoundError")
    ELSE Ok(read_csv(files[mapping_table_path]))

\* mutant: the rows of every primary_id are kept
InSlice_any_primary_id(r) == r["year"] = ref_year

\* the rows kept by line 51
InSlice(r) == r["year"] = ref_year /\ r["primary_id"] = ref_primary_id

\* arg: the caller's table after the call
load_simulation_output_data(df) ==
    IF ~HasCol(df, "time_period") \/ ~HasCol(df, "primary_id")
    THEN [raised |-> "KeyError", ret |-> NoDF, arg |-> df]
    ELSE LET copy == df
             with_year ==
                 DF(AddCol(copy.cols, "year"),
                    [i \in 1..Len(copy.rows) |->
                        WithCell(copy.rows[i], "year",
                                 copy.rows[i]["time_period"] + init_year)])
         IN  [raised |-> "",
              ret |-> DF(with_year.cols, SelectSeq(with_year.rows, InSlice)),
              arg |-> df]

\* edgar_df['CSC Subsector'] + ':' + edgar_df['Gas']
Edgar_Class_of(r) ==
    IF isna(r["CSC Subsector"]) \/ isna(r["Gas"]) THEN ""
    ELSE r["CSC Subsector"] \o ":" \o r["Gas"]

edgar_data_etl(files) ==
    IF ~files[edga_file_path].exists THEN Raise("FileNotFoundError")
    ELSE LET raw == read_csv(files[edga_file_path])
             value_var == str(ref_year)
         IN  IF \/ ~HasCol(raw, "Code")
                \/ ~HasCol(raw, "CSC Subsector")
                \/ ~HasCol(raw, "Gas")
                \/ ~HasCol(raw, value_var)
             THEN Raise("KeyError")
             ELSE LET country ==
                          SelectSeq(raw.rows,
                                    LAMBDA r : r["Code"] = iso_alpha_3)
                  IN  Ok(DF(<<"Edgar_Class", "Year", "Edgar_Values">>,
                            [i \in 1..Len(country) |->
                                [Edgar_Class |-> Edgar_Class_of(country[i]),
                                 Year |-> int(value_var),
                                 Edgar_Values |-> country[i][value_var]]]))

vars_list(row) == split(row["Vars"], ":")
missing_in_row(row, cols) ==
    SelectSeq(vars_list(row), LAMBDA v : v \notin cols)
matching_columns(row, cols) ==
    SelectSeq(vars_list(row), LAMBDA v : v \in cols)

\* simulation_df[columns].sum().sum(): each listed column is summed over all
\* the rows, a column listed twice is selected twice
sum_sum(df, columns) ==
    SumInt([i \in 1..Len(columns) |-> SumInt(Column(df, columns[i]))])

\* mutant: the missing names are collected in a list
list_extend(s, xs) == s \o xs

\* set.update: a Python set, kept as a sequence without repetition
RECURSIVE set_update(_, _)
set_update(s, xs) ==
    IF xs = <<>> THEN s
    ELSE set_update(IF Head(xs) \in Range(s) THEN s ELSE Append(s, Head(xs)),
                    Tail(xs))

RECURSIVE missing_after(_, _)
missing_after(rows, cols) ==
    IF rows = <<>> THEN <<>>
    ELSE set_update(missing_after(SubSeq(rows, 1, Len(rows) - 1), cols),
                    missing_in_row(rows[Len(rows)], cols))

subsector_total_emissions(simulation, row) ==
    LET matching == matching_columns(row, Range(simulation.cols))
    IN  IF matching # <<>> THEN sum_sum(simulation, matching) ELSE 0

calculate_ssp_emission_totals(simulation, mapping) ==
    IF mapping.rows # <<>> /\ ~HasCol(mapping, "Vars")
    THEN [raised |-> "KeyError", ret |-> NoDF, missing |-> <<>>]
    ELSE IF \E i \in 1..Len(mapping.rows) : mapping.rows[i]["Vars"] = <<>>
    THEN [raised |-> "AttributeError", ret |-> NoDF, missing |-> <<>>]
    ELSE [raised |-> "",
          ret |-> DF(AddCol(mapping.cols, "Simulation_Values"),
                     [i \in 1..Len(mapping.rows) |->
                         WithCell(mapping.rows[i], "Simulation_Values",
                                  Num(subsector_total_emissions(
                                          simulation, mapping.rows[i])))]),
          missing |-> missing_after(mapping.rows, Range(simulation.cols))]

\* what lines 115-120 can print: the set is iterated in an unspecified order
printed(missing) ==
    IF missing # <<>>
    THEN {<<"The following variables from Vars are not present in simulation_df:">>
              \o p : p \in Permutations_(Range(missing))}
    ELSE {<<"All variables from Vars are present in simulation_df.">>}

\* mutant: first() in the place of sum()
group_first(g, col) == g.rows[1][col]

\* mutant: sum(skipna=False), a missing cell makes the sum missing
group_sum_skipna_false(g, col) ==
    IF \E i \in 1..Len(g.rows) : g.rows[i][col].k = "nan" THEN NaN
    ELSE Num(NanSum(Column(g, col)))

\* groupby(...)[col].sum() of one group g
group_sum(g, col) == Num(NanSum(Column(g, col)))

\* line 130
detailed_diff_report_agg(df) ==
    LET by == <<"Subsector", "Edgar_Class">>
        keys == GroupKeys(df, by)
    IN  DF(<<"Subsector", "Edgar_Class", "Simulation_Values">>,
           [i \in 1..Len(keys) |->
               [Subsector |-> keys[i][1],
                Edgar_Class |-> keys[i][2],
                Simulation_Values |->
                    group_sum(DF(df.cols, GroupRows(df, by, keys[i])),
                              "Simulation_Values")]])

\* pd.merge(left, right, how='left', on='Edgar_Class'): in the order of the
\* left rows, one row per matching right row, or one row of NaN when none
merge_left(left, right) ==
    LET joined(l) ==
            LET m == SelectSeq(right.rows,
                               LAMBDA r : r["Edgar_Class"] = l["Edgar_Class"])
            IN  IF m = <<>>
                THEN <<[Subsector |-> l["Subsector"],
                        Edgar_Class |-> l["Edgar_Class"],
                        Simulation_Values |-> l["Simulation_Values"],
                        Year |-> NaN,
                        Edgar_Values |-> NaN]>>
                ELSE [j \in 1..Len(m) |->
                         [Subsector |-> l["Subsector"],
                          Edgar_Class |-> l["Edgar_Class"],
                          Simulation_Values |-> l["Simulation_Values"],
                          Year |-> m[j]["Year"],
                          Edgar_Values |-> m[j]["Edgar_Values"]]]
    IN  DF(<<"Subsector", "Edgar_Class", "Simulation_Values", "Year",
             "Edgar_Values">>,
           Flatten([i \in 1..Len(left.rows) |-> joined(left.rows[i])]))

\* lines 136 and 151
diff_of(r) ==
    FDiv(FSub(r["Simulation_Values"], r["Edgar_Values"]), r["Edgar_Values"])

generate_detailed_diff_report(draft, edgar) ==
    IF ~HasCol(draft, "Subsector") \/ ~HasCol(draft, "Edgar_Class")
    THEN Raise("KeyError")
    ELSE LET merged == merge_left(detailed_diff_report_agg(draft), edgar)
         IN  Ok(DF(<<"Year", "Subsector", "Edgar_Class", "Simulation_Values",
                     "Edgar_Values", "diff">>,
                   [i \in 1..Len(merged.rows) |->
                       [Year |-> ref_year,
                        Subsector |-> merged.rows[i]["Subsector"],
                        Edgar_Class |-> merged.rows[i]["Edgar_Class"],
                        Simulation_Values |->
                            merged.rows[i]["Simulation_Values"],
                        Edgar_Values |-> merged.rows[i]["Edgar_Values"],
                        diff |-> diff_of(merged.rows[i])]]))

generate_subsector_diff_report(detailed) ==
    LET by == <<"Subsector">>
        keys == GroupKeys(detailed, by)
        summed(key) ==
            LET g == DF(detailed.cols, GroupRows(detailed, by, key))
            IN  [Subsector |-> key[1],
                 Simulation_Values |-> group_sum(g, "Simulation_Values"),
                 Edgar_Values |-> group_sum(g, "Edgar_Values")]
    IN  Ok(DF(<<"Year", "Subsector", "Simulation_Values", "Edgar_Values",
                "diff">>,
              [i \in 1..Len(keys) |->
                  [Year |-> ref_year,
                   Subsector |-> summed(keys[i]).Subsector,
                   Simulation_Values |-> summed(keys[i]).Simulation_Values,
                   Edgar_Values |-> summed(keys[i]).Edgar_Values,
                   diff |-> diff_of(summed(keys[i]))]]))

\* mutant: the detailed report is written over the mapping table
detailed_report_path_is_mapping == os_path_join(misc_dir_path, "mapping.csv")

detailed_report_path ==
    os_path_join(misc_dir_path, "detailed_diff_report_" \o report_type \o ".csv")
subsector_report_path ==
    os_path_join(misc_dir_path, "subsector_diff_report_" \o report_type \o ".csv")

(***************************************************************************)
(* The inputs: the files of misc_dir_path and the caller's table.          *)
(***************************************************************************)
MaxMapRows == 2
MaxSimRows == 2
MaxRefRows == 2

SeqsUpTo(S, n) == UNION {[1..k -> S] : k \in 0..n}

Drop(df, c) ==
    DF(SelectSeq(df.cols, LAMBDA x : x # c),
       [i \in 1..Len(df.rows) |->
           [x \in DOMAIN df.rows[i] \ {c} |-> df.rows[i][x]]])

MappingCols == <<"Sector", "Subsector", "Edgar_Class", "Vars">>
MappingRow(sub, class, vs) ==
    [Sector |-> "Energy", Subsector |-> sub, Edgar_Class |-> class, Vars |-> vs]
Mapping(rows) == DF(MappingCols, rows)

SimRow(t, p, a, b) == [time_period |-> t, primary_id |-> p, a |-> a, b |-> b]
Simulation(rows) == DF(<<"time_period", "primary_id", "a", "b">>, rows)

ReferenceCols == <<"Code", "CSC Subsector", "Gas", str(ref_year)>>
ReferenceRow(code, sub, gas, v) ==
    ("Code" :> code) @@ ("CSC Subsector" :> sub) @@ ("Gas" :> gas)
        @@ (str(ref_year) :> v)
Reference(rows) == DF(ReferenceCols, rows)

\* the mapping, the slice and the reference of the scenario of the spec
ScenarioMapping ==
    Mapping(<<MappingRow("Energy", "Energy:CO2", <<"a", ":", "b">>),
              MappingRow("Energy", "Energy:CO2", <<"a">>)>>)
ScenarioSimulation ==
    Simulation(<<SimRow(5, 0, 10, 5), SimRow(5, 1, 100, 50)>>)
ScenarioReference == Reference(<<ReferenceRow("HRV", "Energy", "CO2", Num(20))>>)

Files(mapping, reference, detailed, subsector) ==
    (mapping_table_path :> mapping) @@ (edga_file_path :> reference)
        @@ (detailed_report_path :> detailed)
        @@ (subsector_report_path :> subsector)

\* a report left in the directory by an earlier use of it
StaleFile == File(DF(<<"Year">>, <<[Year |-> ref_year - 1]>>))

\* Orchestrator inputs: files absent, columns absent, an empty Vars cell
OrchestratorMappingRows ==
    {MappingRow("Energy", "Energy:CO2", <<"a", ":", "b">>),
     MappingRow("Energy", "Energy:CO2", <<"a">>),
     MappingRow("IPPU", "IPPU:CO2", <<"z">>),
     MappingRow("Energy", "Energy:CH4", <<>>)}
OrchestratorMappings ==
    {NoFile}
        \cup {File(Mapping(r)) : r \in SeqsUpTo(OrchestratorMappingRows, MaxMapRows)}
        \cup {File(Drop(ScenarioMapping, c)) :
                c \in {"Sector", "Subsector", "Edgar_Class", "Vars"}}
        \cup {File(Drop(Mapping(<<>>), "Vars"))}
OrchestratorReferences ==
    {NoFile, File(ScenarioReference),
     File(Drop(ScenarioReference, str(ref_year))),
     File(Drop(ScenarioReference, "Code")),
     File(Reference(<<ReferenceRow("SVN", "Energy", "CO2", Num(7)),
                      ReferenceRow("HRV", "Energy", "CO2", Num(20)),
                      ReferenceRow("HRV", "IPPU", "CO2", Num(0))>>))}
OrchestratorSimulations ==
    {ScenarioSimulation, Drop(ScenarioSimulation, "time_period"),
     Drop(ScenarioSimulation, "primary_id")}

InitOrchestrator ==
    /\ fs \in {Files(m, r, o, o) : m \in OrchestratorMappings,
                                   r \in OrchestratorReferences,
                                   o \in {NoFile, StaleFile}}
    /\ simulation_df \in OrchestratorSimulations

\* Simulation Filter inputs: every table of up to MaxSimRows rows
FilterSimRows ==
    {SimRow(t, p, a, 5) : t \in {4, 5}, p \in {0, 1}, a \in {1, 10}}
InitFilter ==
    /\ fs = Files(File(ScenarioMapping), File(ScenarioReference), NoFile, NoFile)
    /\ simulation_df \in
           {Simulation(r) : r \in SeqsUpTo(FilterSimRows, MaxSimRows)}

\* Aggregator inputs: every Vars of a few shapes against slices of 0, 1 and
\* 2 rows, with and without the column b
AggregatorVars ==
    {<<"a">>, <<"a", ":", "b">>, <<"a", ":", "a">>, <<"z">>,
     <<"b", ":", "z">>, <<"z", ":", "b", ":", "z">>}
AggregatorSimulations ==
    {ScenarioSimulation,
     Simulation(<<SimRow(5, 0, 10, 5), SimRow(5, 0, 1, 2)>>),
     Simulation(<<SimRow(4, 0, 10, 5), SimRow(5, 1, 1, 2)>>),
     Drop(Simulation(<<SimRow(5, 0, 10, 5), SimRow(5, 0, 1, 2)>>), "b")}
InitAggregator ==
    /\ fs \in {Files(File(Mapping(r)), File(ScenarioReference), NoFile, NoFile) :
                 r \in SeqsUpTo({MappingRow("Energy", "Energy:CO2", v) :
                                   v \in AggregatorVars}, MaxMapRows)}
    /\ simulation_df \in AggregatorSimulations

\* Diff Builder inputs: mappings over two subsectors and three classes (one
\* cell empty) against a few references, and references of up to MaxRefRows
\* rows against a few mappings
DiffMappingRows ==
    {MappingRow(k[1], k[2], v) :
        k \in {<<"Energy", "Energy:CO2">>, <<"Energy", "Energy:CH4">>,
               <<"Energy", "">>, <<"IPPU", "IPPU:CO2">>},
        v \in {<<"a">>, <<"a", ":", "b">>}}
DiffReferences ==
    {Reference(<<>>),
     ScenarioReference,
     Reference(<<ReferenceRow("HRV", "Energy", "CO2", Num(20)),
                 ReferenceRow("HRV", "Energy", "CH4", Num(-20))>>),
     Reference(<<ReferenceRow("HRV", "Energy", "CO2", Num(0)),
                 ReferenceRow("HRV", "IPPU", "CO2", NaN)>>),
     Reference(<<ReferenceRow("HRV", "Energy", "CO2", Num(20)),
                 ReferenceRow("HRV", "Energy", "CO2", Num(30))>>),
     Reference(<<ReferenceRow("HRV", "Energy", "", Num(7)),
                 ReferenceRow("HRV", "IPPU", "CO2", Num(5))>>)}
DiffReferenceRows ==
    {ReferenceRow("HRV", "Energy", "CO2", v) :
        v \in {NaN, Num(0), Num(20), Num(30)}}
        \cup {ReferenceRow("HRV", "Energy", "CH4", v) : v \in {Num(-20), Num(5)}}
DiffMappings ==
    {ScenarioMapping,
     Mapping(<<MappingRow("Energy", "Energy:CO2", <<"a">>),
               MappingRow("Energy", "Energy:CH4", <<"b">>),
               MappingRow("Energy", "Energy:N2O", <<"a", ":", "b">>),
               MappingRow("IPPU", "IPPU:CO2", <<"a", ":", "b">>)>>),
     Mapping(<<MappingRow("Energy", "Energy:CH4", <<"z">>),
               MappingRow("Energy", "Energy:CO2", <<"z">>)>>)}
InitDiff ==
    /\ fs \in {Files(File(Mapping(m)), File(r), NoFile, NoFile) :
                 m \in SeqsUpTo(DiffMappingRows, MaxMapRows),
                 r \in DiffReferences}
            \cup {Files(File(m), File(Reference(r)), NoFile, NoFile) :
                    m \in DiffMappings,
                    r \in SeqsUpTo(DiffReferenceRows, MaxRefRows)}
    /\ simulation_df = ScenarioSimulation

(***************************************************************************)
(* generate_diff_reports, one action per statement.                        *)
(***************************************************************************)
\* mutant: the detailed report file is written before the reference
\* inventory is read
Program_report_written_early ==
    <<"load_mapping_table", "load_simulation_output_data", "to_csv_detailed",
      "edgar_data_etl", "calculate_ssp_emission_totals",
      "generate_detailed_diff_report", "generate_subsector_diff_report",
      "to_csv_subsector">>

Program ==
    <<"load_mapping_table", "load_simulation_output_data", "edgar_data_etl",
      "calculate_ssp_emission_totals", "generate_detailed_diff_report",
      "generate_subsector_diff_report", "to_csv_detailed", "to_csv_subsector">>

NoOutcome ==
    [status |-> "", error |-> "", detailed |-> NoDF, subsector |-> NoDF,
     detailed_file |-> NoFile, subsector_file |-> NoFile]

\* what a finished call leaves: how it ended, the two reports returned and
\* the two report files
Outcome ==
    [status |-> status, error |-> error,
     detailed |-> IF status = "returned" THEN detailed_diff_report_complete
                  ELSE NoDF,
     subsector |-> IF status = "returned" THEN subsector_diff_report ELSE NoDF,
     detailed_file |-> fs[detailed_report_path],
     subsector_file |-> fs[subsector_report_path]]

Init ==
    /\ InitOrchestrator \/ InitFilter \/ InitAggregator \/ InitDiff
    /\ sim_input = simulation_df
    /\ pc = 1
    /\ status = "running"
    /\ error = ""
    /\ mapping_df = NoDF
    /\ simulation_df_filtered = NoDF
    /\ edgar_df = NoDF
    /\ detailed_report_draft_df = NoDF
    /\ missing_variables = <<>>
    /\ stdout = <<>>
    /\ detailed_diff_report_complete = NoDF
    /\ subsector_diff_report = NoDF
    /\ written = {}
    /\ fs_at_call = fs
    /\ run = 1
    /\ first = NoOutcome

At(stmt) == status = "running" /\ Program[pc] = stmt

\* the statement returned r: the exception propagates, or the next statement
\* (the return of line 173 after the last)
Continue(r) ==
    /\ status' = IF r.raised # "" THEN "aborted"
                 ELSE IF pc = Len(Program) THEN "returned" ELSE "running"
    /\ error' = r.raised
    /\ pc' = IF r.raised # "" THEN pc ELSE pc + 1

Assigned(r, old) == IF r.raised # "" THEN old ELSE r.ret

LoadMappingTable ==
    /\ At("load_mapping_table")
    /\ LET r == load_mapping_table(fs)
       IN  Continue(r) /\ mapping_df' = Assigned(r, mapping_df)
    /\ UNCHANGED <<fs, simulation_df, sim_input, simulation_df_filtered,
                   edgar_df, detailed_report_draft_df, missing_variables,
                   stdout, detailed_diff_report_complete,
                   subsector_diff_report, written, fs_at_call, run, first>>

LoadSimulationOutputData ==
    /\ At("load_simulation_output_data")
    /\ LET r == load_simulation_output_data(simulation_df)
       IN  /\ Continue(r)
           /\ simulation_df_filtered' = Assigned(r, simulation_df_filtered)
           /\ simulation_df' = r.arg
    /\ UNCHANGED <<fs, sim_input, mapping_df, edgar_df,
                   detailed_report_draft_df, missing_variables, stdout,
                   detailed_diff_report_complete, subsector_diff_report,
                   written, fs_at_call, run, first>>

EdgarDataEtl ==
    /\ At("edgar_data_etl")
    /\ LET r == edgar_data_etl(fs)
       IN  Continue(r) /\ edgar_df' = Assigned(r, edgar_df)
    /\ UNCHANGED <<fs, simulation_df, sim_input, mapping_df,
                   simulation_df_filtered, detailed_report_draft_df,
                   missing_variables, stdout, detailed_diff_report_complete,
                   subsector_diff_report, written, fs_at_call, run, first>>

CalculateSspEmissionTotals ==
    /\ At("calculate_ssp_emission_totals")
    /\ LET r == calculate_ssp_emission_totals(simulation_df_filtered, mapping_df)
       IN  /\ Continue(r)
           /\ detailed_report_draft_df' = Assigned(r, detailed_report_draft_df)
           /\ missing_variables' = r.missing
           /\ IF r.raised # "" THEN stdout' = stdout
              ELSE stdout' \in printed(r.missing)
    /\ UNCHANGED <<fs, simulation_df, sim_input, mapping_df,
                   simulation_df_filtered, edgar_df,
                   detailed_diff_report_complete, subsector_diff_report,
                   written, fs_at_call, run, first>>

GenerateDetailedDiffReport ==
    /\ At("generate_detailed_diff_report")
    /\ LET r == generate_detailed_diff_report(detailed_report_draft_df, edgar_df)
       IN  /\ Continue(r)
           /\ detailed_diff_report_complete' =
                  Assigned(r, detailed_diff_report_complete)
    /\ UNCHANGED <<fs, simulation_df, sim_input, mapping_df,
                   simulation_df_filtered, edgar_df, detailed_report_draft_df,
                   missing_variables, stdout, subsector_diff_report, written,
                   fs_at_call, run, first>>

GenerateSubsectorDiffReport ==
    /\ At("generate_subsector_diff_report")
    /\ LET r == generate_subsector_diff_report(detailed_diff_report_complete)
       IN  /\ Continue(r)
           /\ subsector_diff_report' = Assigned(r, subsector_diff_report)
    /\ UNCHANGED <<fs, simulation_df, sim_input, mapping_df,
                   simulation_df_filtered, edgar_df, detailed_report_draft_df,
                   missing_variables, stdout, detailed_diff_report_complete,
                   written, fs_at_call, run, first>>

ToCsv(stmt, path, df) ==
    /\ At(stmt)
    /\ fs' = [fs EXCEPT ![path] = to_csv(df)]
    /\ written' = written \cup {path}
    /\ Continue(Ok(df))
    /\ UNCHANGED <<simulation_df, sim_input, mapping_df,
                   simulation_df_filtered, edgar_df, detailed_report_draft_df,
                   missing_variables, stdout, detailed_diff_report_complete,
                   subsector_diff_report, fs_at_call, run, first>>

ToCsvDetailed ==
    ToCsv("to_csv_detailed", detailed_report_path, detailed_diff_report_complete)

ToCsvSubsector ==
    ToCsv("to_csv_subsector", subsector_report_path, subsector_diff_report)

\* the caller calls generate_diff_reports again, with the same table and
\* the directory as the first call left it
Rerun ==
    /\ run = 1
    /\ status \in {"returned", "aborted"}
    /\ run' = 2
    /\ first' = Outcome
    /\ pc' = 1
    /\ status' = "running"
    /\ error' = ""
    /\ mapping_df' = NoDF
    /\ simulation_df_filtered' = NoDF
    /\ edgar_df' = NoDF
    /\ detailed_report_draft_df' = NoDF
    /\ missing_variables' = <<>>
    /\ stdout' = <<>>
    /\ detailed_diff_report_complete' = NoDF
    /\ subsector_diff_report' = NoDF
    /\ written' = {}
    /\ fs_at_call' = fs
    /\ UNCHANGED <<fs, simulation_df, sim_input>>

Next ==
    \/ LoadMappingTable
    \/ LoadSimulationOutputData
    \/ EdgarDataEtl
    \/ CalculateSspEmissionTotals
    \/ GenerateDetailedDiffReport
    \/ GenerateSubsectorDiffReport
    \/ ToCsvDetailed
    \/ ToCsvSubsector
    \/ Rerun

Spec == Init /\ [][Next]_vars

(***************************************************************************)
(* Properties.                                                             *)
(***************************************************************************)
Pos(stmt) == CHOOSE i \in 1..Len(Program) : Program[i] = stmt
\* the statement has completed in the current call
Done(stmt) == pc > Pos(stmt)

Ix(s) == 1..Len(s)

RECURSIVE SumOver(_, _)
SumOver(S, f) ==
    IF S = {} THEN 0
    ELSE LET i == CHOOSE x \in S : TRUE IN f[i] + SumOver(S \ {i}, f)

\* the value a cell adds to a sum: nothing when it is missing
Present(c) == c.k = "fin"
Value(c) == IF Present(c) THEN c.n ELSE 0

\* cell q is the quotient (s - e) / e of integers s and e # 0
IsRelDiff(q, s, e) == q.k = "fin" /\ q.d # 0 /\ q.n * e = (s - e) * q.d
Undefined(q) == q.k \in {"nan", "inf", "-inf"}

Draft == detailed_report_draft_df.rows
Detailed == detailed_diff_report_complete.rows
Subsectors == subsector_diff_report.rows
Slice == simulation_df_filtered

\* C1: every row of the subsector report carries, as Simulation_Values, the
\* sum of Simulation_Values over the rows of the augmented mapping table
\* that have its Subsector (roll-up commutes).
C1_RollUpCommutes ==
    Done("generate_subsector_diff_report") =>
        \A i \in Ix(Subsectors) :
            Subsectors[i]["Simulation_Values"] =
                Num(SumOver({j \in Ix(Draft) :
                               Draft[j]["Subsector"] = Subsectors[i]["Subsector"]},
                            [j \in Ix(Draft) |->
                                Draft[j]["Simulation_Values"].n]))

\* C2: the detailed report has exactly one row for each distinct
\* (Subsector, Edgar_Class) pair of the mapping table (both cells filled),
\* whatever the reference table holds, and no row for any other pair.
C2_OneRowPerPair ==
    Done("generate_detailed_diff_report") =>
        /\ \A j \in Ix(mapping_df.rows) :
               LET m == mapping_df.rows[j]
               IN  (m["Subsector"] # "" /\ m["Edgar_Class"] # "") =>
                       Cardinality({i \in Ix(Detailed) :
                           /\ Detailed[i]["Subsector"] = m["Subsector"]
                           /\ Detailed[i]["Edgar_Class"] = m["Edgar_Class"]}) = 1
        /\ \A i \in Ix(Detailed) : \E j \in Ix(mapping_df.rows) :
               /\ Detailed[i]["Subsector"] = mapping_df.rows[j]["Subsector"]
               /\ Detailed[i]["Edgar_Class"] = mapping_df.rows[j]["Edgar_Class"]

\* the names a mapping row lists, and those of them the slice has
Listed(row) == Range(split(row["Vars"], ":"))
SliceFields == Range(Slice.cols)
Occurrences(s, x) == Cardinality({i \in Ix(s) : s[i] = x})

\* C3: a mapping row none of whose Vars is a field of the slice gets
\* Simulation_Values 0; every name some row lists and the slice lacks is in
\* the missing-variables collection, and printed, exactly once; no field of
\* the slice is in it.
C3_MissingVariables ==
    Done("calculate_ssp_emission_totals") =>
        /\ \A i \in Ix(Draft) :
               Listed(Draft[i]) \cap SliceFields = {} =>
                   Draft[i]["Simulation_Values"] = Num(0)
        /\ \A i \in Ix(Draft) : \A v \in Listed(Draft[i]) \ SliceFields :
               /\ Occurrences(missing_variables, v) = 1
               /\ Occurrences(Tail(stdout), v) = 1
        /\ \A k \in Ix(missing_variables) :
               /\ missing_variables[k] \notin SliceFields
               /\ \E i \in Ix(Draft) : missing_variables[k] \in Listed(Draft[i])
        /\ Len(stdout) = 1 + Len(missing_variables)

C3_Witness ==
    /\ Done("calculate_ssp_emission_totals")
    /\ Len(Draft) = 2
    /\ Listed(Draft[1]) = {"z"}
    /\ "z" \in Listed(Draft[2])
    /\ "b" \in Listed(Draft[2]) \ SliceFields
    /\ Draft[1]["Simulation_Values"] = Num(0)
    /\ Len(missing_variables) = 2

ReportsUntouched ==
    /\ written = {}
    /\ fs[detailed_report_path] = fs_at_call[detailed_report_path]
    /\ fs[subsector_report_path] = fs_at_call[subsector_report_path]

\* C4: when a call aborts, neither report file has been written by it; a
\* report file is written only once the six steps before it have completed.
C4_NoOutputOnAbort ==
    /\ status = "aborted" => ReportsUntouched
    /\ ~ReportsUntouched =>
           \A stmt \in {"load_mapping_table", "load_simulation_output_data",
                        "edgar_data_etl", "calculate_ssp_emission_totals",
                        "generate_detailed_diff_report",
                        "generate_subsector_diff_report"} : Done(stmt)

\* the reference file lacks the column of the reference year
C4_Witness ==
    /\ status = "aborted"
    /\ error = "KeyError"
    /\ Program[pc] = "edgar_data_etl"
    /\ HasCol(fs[edga_file_path], "Code")
    /\ ~HasCol(fs[edga_file_path], str(ref_year))
    /\ fs[detailed_report_path] = StaleFile

\* C5: in every row of the detailed report diff is
\* (Simulation_Values - Edgar_Values) / Edgar_Values when Edgar_Values is
\* present and not zero, and an undefined marker otherwise; a pair of the
\* mapping whose class no reference row has keeps its row, with Edgar_Values
\* missing; no call ends in a division error.
C5_DiffOrUndefined ==
    /\ error # "ZeroDivisionError"
    /\ Done("generate_detailed_diff_report") =>
        /\ \A i \in Ix(Detailed) :
               LET r == Detailed[i]
               IN  IF Present(r["Edgar_Values"]) /\ r["Edgar_Values"].n # 0
                   THEN IsRelDiff(r["diff"], r["Simulation_Values"].n,
                                  r["Edgar_Values"].n)
                   ELSE Undefined(r["diff"])
        /\ \A j \in Ix(mapping_df.rows) :
               LET m == mapping_df.rows[j]
               IN  (/\ m["Subsector"] # ""
                    /\ m["Edgar_Class"] # ""
                    /\ \A k \in Ix(edgar_df.rows) :
                           edgar_df.rows[k]["Edgar_Class"] # m["Edgar_Class"])
                   => \E i \in Ix(Detailed) :
                          /\ Detailed[i]["Subsector"] = m["Subsector"]
                          /\ Detailed[i]["Edgar_Class"] = m["Edgar_Class"]
                          /\ Detailed[i]["Edgar_Values"] = NaN
                          /\ Detailed[i]["diff"] = NaN

C5_Witness ==
    /\ Done("generate_detailed_diff_report")
    /\ \E i, j, k \in Ix(Detailed) :
           /\ Detailed[i]["Edgar_Values"] = Num(0)
           /\ Detailed[i]["diff"] = PosInf
           /\ Detailed[j]["Edgar_Values"] = NaN
           /\ Detailed[j]["diff"] = NaN
           /\ Detailed[k]["Edgar_Values"] = Num(20)
           /\ Detailed[k]["diff"] = [k |-> "fin", n |-> -1, d |-> 2]

\* the rows of the caller's table that line 51 is to keep
Wanted(r) ==
    r["time_period"] + init_year = ref_year /\ r["primary_id"] = ref_primary_id
WantedIx == {i \in Ix(sim_input.rows) : Wanted(sim_input.rows[i])}
\* the j-th of them
NthWanted(j) ==
    CHOOSE i \in WantedIx : Cardinality({k \in WantedIx : k <= i}) = j

\* C6: the slice holds exactly the rows of the input with
\* time_period + init_year = ref_year and primary_id = ref_primary_id, each
\* once and in the input's order, and the caller's table is never changed.
C6_FilterExact ==
    /\ simulation_df = sim_input
    /\ Done("load_simulation_output_data") =>
        /\ Len(Slice.rows) = Cardinality(WantedIx)
        /\ \A j \in Ix(Slice.rows) :
               /\ Slice.rows[j]["year"] = ref_year
               /\ \A c \in Range(sim_input.cols) :
                      Slice.rows[j][c] = sim_input.rows[NthWanted(j)][c]

C6_Witness ==
    /\ Done("load_simulation_output_data")
    /\ Len(sim_input.rows) = 2
    /\ Len(Slice.rows) = 1
    /\ sim_input.rows[1]["time_period"] = 5
    /\ sim_input.rows[1]["primary_id"] = 1
    /\ sim_input.rows[2]["time_period"] = 5
    /\ sim_input.rows[2]["primary_id"] = 0

\* C7: Simulation_Values of a mapping row is the sum, over the rows of the
\* slice and over the set of names the row lists that are fields of the
\* slice, of the slice's values, each name counted once.
C7_SumOverSetOfVars ==
    Done("calculate_ssp_emission_totals") =>
        \A i \in Ix(Draft) :
            Draft[i]["Simulation_Values"] =
                Num(SumOver({<<v, j>> : v \in Listed(Draft[i]) \cap SliceFields,
                                        j \in Ix(Slice.rows)},
                            [x \in SliceFields \X Ix(Slice.rows) |->
                                Slice.rows[x[2]][x[1]]]))

\* C8: a second call on the same inputs ends as the first did, returns the
\* same two reports and leaves the same two report files.
C8_Idempotent ==
    (run = 2 /\ status \in {"returned", "aborted"}) => Outcome = first

C8_Witness ==
    /\ run = 2
    /\ status = "returned"
    /\ first.status = "returned"
    /\ Len(Detailed) = 2
    /\ fs_at_call[detailed_report_path] = File(detailed_diff_report_complete)

DetailedOf(sub) == {j \in Ix(Detailed) : Detailed[j]["Subsector"] = sub}
SimSum(sub) ==
    SumOver(DetailedOf(sub),
            [j \in Ix(Detailed) |-> Value(Detailed[j]["Simulation_Values"])])
EdgarSum(sub) ==
    SumOver(DetailedOf(sub),
            [j \in Ix(Detailed) |-> Value(Detailed[j]["Edgar_Values"])])

\* C9: the subsector report has one row per distinct Subsector of the
\* detailed report; its Simulation_Values and Edgar_Values are the sums of
\* those fields over the subsector's detailed rows, its diff is computed
\* from the two sums and its Year is the reference year.
C9_SubsectorSums ==
    Done("generate_subsector_diff_report") =>
        /\ \A j \in Ix(Detailed) :
               Cardinality({i \in Ix(Subsectors) :
                   Subsectors[i]["Subsector"] = Detailed[j]["Subsector"]}) = 1
        /\ \A i \in Ix(Subsectors) :
               LET s == Subsectors[i]
                   sub == s["Subsector"]
               IN  /\ DetailedOf(sub) # {}
                   /\ s["Year"] = ref_year
                   /\ s["Simulation_Values"] = Num(SimSum(sub))
                   /\ s["Edgar_Values"] = Num(EdgarSum(sub))
                   /\ IF EdgarSum(sub) # 0
                      THEN IsRelDiff(s["diff"], SimSum(sub), EdgarSum(sub))
                      ELSE Undefined(s["diff"])

\* a subsector of several classes whose diff is none of theirs
C9_Witness ==
    /\ Done("generate_subsector_diff_report")
    /\ \E i \in Ix(Subsectors) :
           /\ Cardinality(DetailedOf(Subsectors[i]["Subsector"])) >= 2
           /\ \A j \in DetailedOf(Subsectors[i]["Subsector"]) :
                  /\ Present(Detailed[j]["diff"])
                  /\ Detailed[j]["diff"] # Subsectors[i]["diff"]
           /\ Present(Subsectors[i]["diff"])

Unmatched(sub) == {j \in DetailedOf(sub) : ~Present(Detailed[j]["Edgar_Values"])}
MatchedNonzero(sub) ==
    {j \in DetailedOf(sub) :
        Present(Detailed[j]["Edgar_Values"]) /\ Detailed[j]["Edgar_Values"].n # 0}

\* a detailed row without Edgar_Values adds zero to its subsector's sum
MissingCountsAsZero(s) ==
    /\ s["Edgar_Values"] = Num(EdgarSum(s["Subsector"]))
    /\ Unmatched(s["Subsector"]) = DetailedOf(s["Subsector"]) =>
           s["Edgar_Values"] = Num(0)

\* C10 as stated: a detailed row without Edgar_Values adds zero to the sum;
\* a subsector with a matched nonzero class and an unmatched class gets a
\* finite diff; a subsector whose classes are all unmatched gets
\* Edgar_Values 0.
C10_Original ==
    Done("generate_subsector_diff_report") =>
        \A i \in Ix(Subsectors) :
            LET s == Subsectors[i]
            IN  /\ MissingCountsAsZero(s)
                /\ (/\ MatchedNonzero(s["Subsector"]) # {}
                    /\ Unmatched(s["Subsector"]) # {})
                   => Present(s["diff"])

\* C10 as amended: the diff is finite when the Edgar_Values of the matched
\* classes do not sum to zero.
C10_MissingAsZero ==
    Done("generate_subsector_diff_report") =>
        \A i \in Ix(Subsectors) :
            LET s == Subsectors[i]
            IN  /\ MissingCountsAsZero(s)
                /\ (/\ EdgarSum(s["Subsector"]) # 0
                    /\ Unmatched(s["Subsector"]) # {})
                   => Present(s["diff"])

C10_Witness ==
    /\ Done("generate_subsector_diff_report")
    /\ \E i, k \in Ix(Subsectors) :
           /\ MatchedNonzero(Subsectors[i]["Subsector"]) # {}
           /\ Unmatched(Subsectors[i]["Subsector"]) # {}
           /\ Present(Subsectors[i]["diff"])
           /\ Unmatched(Subsectors[k]["Subsector"])
                  = DetailedOf(Subsectors[k]["Subsector"])
           /\ Subsectors[k]["Edgar_Values"] = Num(0)

====
